---- MODULE Spec2Model ----
(***************************************************************************)
(* Model of the credential pool (app/services/api_key_manager.py) and of   *)
(* the operations that use it (app/services/gemini_service.py).            *)
(*                                                                         *)
(* Credentials are identified by their position in _key_indices            *)
(* (0 .. NumKeys-1); the dict built in __init__ has distinct keys.         *)
(* time.time() is the variable now, in seconds.                            *)
(*                                                                         *)
(* The handlers run as tasks of one event loop, so a step of a task is the *)
(* code between two awaits.  upload_file_to_gemini and                     *)
(* delete_file_from_gemini await nothing and are one step each;            *)
(* generate_response awaits the remote completion call only; the block run *)
(* under get_key_for_session may await.                                    *)
(***************************************************************************)
EXTENDS Integers, Sequences, FiniteSets, TLC

\* ---------------------------------------------------------------- bounds
NumKeys == 2
NumTasks == 2
MaxTime == 60
MaxCalls == 4
NumExperts == 2
MaxRuns == 2
MaxHistory == 2
MaxExpertHistory == 1

\* ------------------------------------------------------ program constants
cooldown_seconds == 60

\* get_key found no credential
None == 0 - 1
\* the step made no get_key call
NoCall == 0 - 2

\* time is observed at multiples of half a cooldown: inside a cooldown window
\* and at the instant it ends
TickStep == cooldown_seconds \div 2

Keys == 0 .. (NumKeys - 1)
Tasks == 1 .. NumTasks

VARIABLES
    available_at,     \* self.keys[key]["available_at"]
    failed,           \* self.keys[key]["failed"]
    current_index,    \* self._current_index
    now,              \* time.time()
    pc,               \* position of each task
    api_key,          \* the credential a task holds (api_key_used / key)
    attempt,          \* loop variable i of generate_response
    tried,            \* the credentials the passes of the loop of a
                      \* generate_response call have made a remote call with
    outcome,          \* how the remote call or block handled by the last step ended
    reports,          \* number of disposition reports the last step made
    peek_key,         \* what get_key(peek=True) returned in the last step
    ret,              \* what get_key() returned in the last step
    withheld_until,   \* end of the cooldown window opened last for a credential
    returned,         \* what the get_key() calls made so far returned, in order
    result,           \* what the last step handed to the caller of generate_response
                      \* or of the session block: a result, "raises", or "none"
    run_pc,           \* position of _run_experts_and_synthesizer ("NoRun": not called)
    expert,           \* number of the expert the loop of line 291 is at
    is_rag,           \* is_rag_expert of that expert
    expert_responses, \* the texts appended at line 295, by kind
    run_result,       \* what _run_experts_and_synthesizer returned
    body,             \* the text send_large_message splits, as it was at line 43
    text,             \* text of send_large_message: what is left to split
    parts,            \* parts of send_large_message
    split_pc,         \* position of send_large_message ("idle": not called)
    history,          \* history of generate_response
    user_content,     \* user_content of generate_response: "text" or "none"
    file_names,       \* file_names of generate_response is a list that is not empty
    final_contents,   \* what generate_response built: final_contents, or that it raised
    mode,             \* mode of _run_experts_and_synthesizer
    exp_pc,           \* position of run_expert and of the synthesizer call
                      \* that follows it ("idle": not called)
    requests,         \* the generate_response calls made, in order: where from,
                      \* history, user_content, tools, final_contents
    searches,         \* the get_instant_answer calls made, in order: query, how
                      \* the call ended, search_result_html
    tool_call,        \* the function call of the first response, by kind
    opinion,          \* the text run_expert returned, by kind
    ddg_query_used,   \* ddg_query_used of run_expert
    lock,             \* self._lock: the thread that holds it, or NoThread
    threads,          \* the method call of each thread: method, arguments,
                      \* position, locals temp_index and _ of get_key, result
    pool0,            \* the pool as it was before the threads' calls
    media_pc,         \* position of handle_media_group ("idle": not called)
    state_file_names, \* user_data["file_names"] of the conversation
    old_file_names,   \* old_file_names not yet gone through by the loop of line 172
    downloaded_files, \* number of downloaded_files the loop of line 195 has left
    new_file_names,   \* file_names of handle_media_group
    deleted_names,    \* the names client.files.delete was called with
    owner,            \* owner[n]: the credential file n was uploaded with
    arrived,          \* message_id of the messages of the group added so far
    cache,            \* media_group_cache[media_group_id], or that the key is absent
    orphan_timers,    \* timers pending in the loop that no cache entry refers to
    proc_created,     \* process_media_group tasks created and not started
    proc_handling,    \* process_media_group tasks awaiting handler_coro
    delivered         \* delivered[m]: the handler calls whose list held message m

poolVars == <<available_at, failed, current_index>>
taskVars == <<pc, api_key, attempt, tried>>
runVars == <<run_pc, expert, is_rag, expert_responses, run_result>>
splitVars == <<body, text, parts, split_pc>>
\* the variables of the functions that are modelled on their own
contentVars == <<history, user_content, file_names, final_contents>>
expertVars == <<mode, exp_pc, requests, searches, tool_call, opinion, ddg_query_used>>
lockVars == <<lock, threads, pool0>>
mediaVars == <<media_pc, state_file_names, old_file_names, downloaded_files,
               new_file_names, deleted_names, owner>>
groupVars == <<arrived, cache, orphan_timers, proc_created, proc_handling, delivered>>
moreVars == <<lockVars, mediaVars, groupVars>>
auxVars == <<splitVars, contentVars, expertVars, moreVars>>
vars == <<available_at, failed, current_index, now, pc, api_key, attempt, tried,
          outcome, reports, peek_key, ret, withheld_until, returned, result,
          run_pc, expert, is_rag, expert_responses, run_result,
          body, text, parts, split_pc,
          history, user_content, file_names, final_contents,
          mode, exp_pc, requests, searches, tool_call, opinion, ddg_query_used,
          lock, threads, pool0,
          media_pc, state_file_names, old_file_names, downloaded_files,
          new_file_names, deleted_names, owner,
          arrived, cache, orphan_timers, proc_created, proc_handling, delivered>>

\* ------------------------------------------------------------ ApiKeyManager
\* The operators take the pool's fields (av: available_at, fl: failed,
\* idx: _current_index) so that one step can make several calls in a row.

\* Faulty variants of the operators below; each one breaks a property stated
\* at the end of the module, which shows that the property depends on the
\* operator it replaces.

\* line 49 without the failed test
KeyUsable_IgnoresFailed(av, fl, k, t) ==
    t >= av[k]

\* line 49 without the available_at test
KeyUsable_IgnoresCooldown(av, fl, k, t) ==
    ~fl[k]

\* lines 50-55 with the cursor left where it was
AdvanceIndex_Stays(idx, temp_index, peek) ==
    idx

\* lines 50-55 with the cursor advanced by a peek as well
AdvanceIndex_OnPeek(idx, temp_index, peek) ==
    (temp_index + 1) % NumKeys

\* lines 42-43 with the scan started at the first credential
StartIndex_Zero(idx) ==
    0

\* lines 69-72 with every report marking the credential failed
report_failure_failed_Always(fl, k, is_rate_limit) ==
    [fl EXCEPT ![k] = TRUE]

\* line 68 with a cooldown of no length
CooldownEnd_Immediate(t) ==
    t

\* lines 45, 52, 59 and line 200 of gemini_service.py: len(self._key_indices),
\* len(api_key_manager.keys): the number of credentials of the pool
len_key_indices == Cardinality(DOMAIN failed)

\* line 49: the test that makes get_key hand out credential k at time t
KeyUsable(av, fl, k, t) ==
    ~fl[k] /\ t >= av[k]

\* lines 50-55: _current_index after get_key returns the credential at temp_index
AdvanceIndex(idx, temp_index, peek) ==
    IF ~peek THEN (temp_index + 1) % len_key_indices ELSE idx

\* lines 45-62: the scan loop with n iterations left
RECURSIVE ScanKeys(_, _, _, _, _, _, _)
ScanKeys(av, fl, idx, temp_index, n, peek, t) ==
    IF n = 0
    THEN [key |-> None, index |-> idx]
    ELSE IF KeyUsable(av, fl, temp_index, t)
         THEN [key |-> temp_index, index |-> AdvanceIndex(idx, temp_index, peek)]
         ELSE ScanKeys(av, fl, idx, (temp_index + 1) % len_key_indices, n - 1, peek, t)

\* lines 42-43: where the scan starts
StartIndex(idx) ==
    idx

\* lines 30-62: get_key(peek) at time t: the credential returned and the new cursor
get_key(av, fl, idx, peek, t) ==
    ScanKeys(av, fl, idx, StartIndex(idx), len_key_indices, peek, t)

\* line 68: the end of the cooldown opened by a rate-limit report at time t
CooldownEnd(t) ==
    t + cooldown_seconds

\* lines 64-72: available_at after report_failure(k, is_rate_limit) at time t
report_failure_available_at(av, k, is_rate_limit, t) ==
    IF is_rate_limit
    THEN [av EXCEPT ![k] = CooldownEnd(t)]
    ELSE av

\* lines 64-72: failed after report_failure(k, is_rate_limit)
report_failure_failed(fl, k, is_rate_limit) ==
    IF is_rate_limit
    THEN fl
    ELSE [fl EXCEPT ![k] = TRUE]

\* lines 74-78: available_at after release_key(k)
release_key_available_at(av, k) ==
    [av EXCEPT ![k] = 0]

\* ------------------------------------------------------------------- Init

\* generate_response has not built final_contents
NotBuilt == [status |-> "none", contents |-> <<>>]

\* run_expert has not been called
ExpertIdle ==
    /\ mode = "fast"
    /\ exp_pc = "idle"
    /\ requests = <<>>
    /\ searches = <<>>
    /\ tool_call = "none"
    /\ opinion = "none"
    /\ ddg_query_used = "none"

\* no thread holds the lock
NoThread == 0

\* the group has no entry in media_group_cache
NoEntry == [present |-> FALSE, messages |-> <<>>, timer |-> "none"]

\* no thread calls a method of the pool
LockIdle ==
    /\ lock = NoThread
    /\ threads = <<>>
    /\ pool0 = <<>>

\* handle_media_group has not been called and the conversation has no file
MediaIdle ==
    /\ media_pc = "idle"
    /\ state_file_names = <<>>
    /\ old_file_names = <<>>
    /\ downloaded_files = 0
    /\ new_file_names = <<>>
    /\ deleted_names = {}
    /\ owner = <<>>

\* no message of a media group has come
GroupIdle ==
    /\ arrived = {}
    /\ cache = NoEntry
    /\ orphan_timers = 0
    /\ proc_created = 0
    /\ proc_handling = 0
    /\ delivered = <<>>

MoreIdle ==
    /\ LockIdle
    /\ MediaIdle
    /\ GroupIdle

\* none of the functions modelled on their own has been called
AuxInit ==
    /\ body = <<>>
    /\ text = <<>>
    /\ parts = <<>>
    /\ split_pc = "idle"
    /\ history = <<>>
    /\ user_content = "none"
    /\ file_names = FALSE
    /\ final_contents = NotBuilt
    /\ ExpertIdle
    /\ MoreIdle


Init ==
    /\ available_at = [k \in Keys |-> 0]
    /\ failed = [k \in Keys |-> FALSE]
    /\ current_index = 0
    /\ now = 0
    /\ pc = [p \in Tasks |-> "idle"]
    /\ api_key = [p \in Tasks |-> None]
    /\ attempt = [p \in Tasks |-> 0]
    /\ tried = [p \in Tasks |-> {}]
    /\ outcome = "none"
    /\ reports = 0
    /\ peek_key = NoCall
    /\ ret = NoCall
    /\ withheld_until = [k \in Keys |-> 0]
    /\ returned = <<>>
    /\ result = "none"
    /\ run_pc = "NoRun"
    /\ expert = 0
    /\ is_rag = FALSE
    /\ expert_responses = <<>>
    /\ run_result = "none"
    /\ AuxInit

\* ------------------------------------------------- helpers of the actions

\* what the step did: the outcome it handled (o), the number of disposition
\* reports it made (n), what get_key(peek=True) returned (pk), what get_key()
\* returned (r); outside an orchestration run r goes to the log, and a step
\* that calls get_key() needs a call of the budget
Event(o, n, pk, r) ==
    /\ outcome' = o
    /\ reports' = n
    /\ peek_key' = pk
    /\ ret' = r
    /\ IF run_pc = "NoRun"
       THEN /\ r # NoCall => Len(returned) < MaxCalls
            /\ returned' = IF r # NoCall THEN Append(returned, r) ELSE returned
       ELSE returned' = returned

\* the pool after the step's calls: available_at av, failed fl, cursor idx;
\* limited holds the credentials the step reported as rate-limited, each of
\* which is in a cooldown window until the available_at the report wrote
Pool(av, fl, idx, limited) ==
    /\ available_at' = av
    /\ failed' = fl
    /\ current_index' = idx
    /\ withheld_until' =
          [k \in DOMAIN av |-> IF k \in limited THEN av[k] ELSE withheld_until[k]]

\* task p goes on holding credential k in position pos with loop variable i
Goes(p, pos, k, i) ==
    /\ pc' = [pc EXCEPT ![p] = pos]
    /\ api_key' = [api_key EXCEPT ![p] = k]
    /\ attempt' = [attempt EXCEPT ![p] = i]
    /\ tried' = [tried EXCEPT ![p] =
                    IF pos # "gen_call" THEN {}
                    ELSE IF i = 0 THEN {k} ELSE tried[p] \cup {k}]

\* --------------------------------- the caller of generate_response in a run

\* the task that runs _run_experts_and_synthesizer
RunTask == 1

\* lines 286-287: the text of a result, by kind; a result without text or
\* with a function call has text None
OpinionText(res) ==
    IF res \in {"no_text", "function_call"} THEN "none" ELSE res

\* line 298 with the texts taken from the last response to the first
Opinions_Reversed(responses) ==
    LET kept == SelectSeq(responses, LAMBDA op : op # "none")
    IN  [j \in 1 .. Len(kept) |-> kept[Len(kept) + 1 - j]]


\* line 298: expert_opinions = [op for op, q in expert_responses if op]
Opinions(responses) ==
    SelectSeq(responses, LAMBDA op : op # "none")

\* the generate_response call the run is in, or is about to make: line 259,
\* line 282 or line 311
CallSite ==
    CASE run_pc = "callback" -> "expert_round1"
      [] run_pc = "search_callback" -> "expert_round2"
      [] run_pc = "synth_callback" -> "synth"
      [] OTHER -> run_pc

\* the run makes a generate_response call in this step
CallIssued == run_pc \in {"callback", "search_callback", "synth_callback"}

\* lines 265-296 and 311-316: what the run does with x, handed to it by the
\* generate_response call at site, up to its next await
Continue(site, x) ==
    CASE x = "raises" ->
           \* no handler in _run_experts_and_synthesizer
           /\ run_pc' = "raised"
           /\ UNCHANGED <<expert, is_rag, expert_responses, run_result>>
      [] x # "raises" /\ site = "expert_round1" /\ is_rag /\ x = "function_call" ->
           \* lines 265-271: await update_callback before the search
           /\ run_pc' = "search_callback"
           /\ UNCHANGED <<expert, is_rag, expert_responses, run_result>>
      [] x # "raises" /\ site = "synth" ->
           \* line 316
           /\ run_pc' = "returned"
           /\ run_result' = x
           /\ UNCHANGED <<expert, is_rag, expert_responses>>
      [] OTHER ->
           \* lines 286-287, 295, 296: await asyncio.sleep(1)
           /\ run_pc' = "sleep"
           /\ expert_responses' = Append(expert_responses, OpinionText(x))
           /\ UNCHANGED <<expert, is_rag, run_result>>

\* a step that is not part of generate_response hands x to its caller
Returns(x) ==
    /\ result' = x
    /\ UNCHANGED runVars
    /\ UNCHANGED auxVars

\* a step of generate_response called by task p hands x to its caller ("none":
\* it is awaiting the remote call); in a run the caller goes on with x
ReturnsTo(p, x) ==
    /\ result' = x
    /\ UNCHANGED auxVars
    /\ IF run_pc = "NoRun" \/ p # RunTask
       THEN UNCHANGED runVars
       ELSE IF x = "none"
            THEN /\ run_pc' = CallSite
                 /\ UNCHANGED <<expert, is_rag, expert_responses, run_result>>
            ELSE Continue(CallSite, x)

\* task p is where it calls generate_response: any request outside a run, and
\* lines 259, 282 and 311 in a run
CallerCalls(p) ==
    (run_pc # "NoRun" /\ p = RunTask) => CallIssued

\* time passes
Tick ==
    /\ now + TickStep <= MaxTime
    /\ now' = now + TickStep
    /\ Event("none", 0, NoCall, NoCall)
    /\ Returns("none")
    /\ UNCHANGED <<poolVars, taskVars, withheld_until>>

\* ------------------------------------------------------ generate_response

\* how an attempt ends in the model of concurrent requests: the remote call
\* returns a response with text ("ok"), returns a response whose processing
\* raises, or raises ("ResourceExhausted", "PermissionDenied", "Exception");
\* "ConfigRaises": lines 210-221 (building the client or the config) raise
\* in the try block, before the remote call is issued
GenOutcomes ==
    {"ok", "ProcessingRaises", "ResourceExhausted", "PermissionDenied",
     "Exception", "ConfigRaises", "CancelledError"}

\* lines 251-282: the responses _process_gemini_response tells apart: a
\* candidate with text ("ok"), a candidate without content parts ("NoParts"),
\* a candidate whose first part is a function call, a candidate stopped for
\* SAFETY or RECITATION, and no candidate at all (IndexError, AttributeError)
ResponseOutcomes ==
    {"ok", "NoParts", "FunctionCall", "SAFETY", "IndexError"}

\* every way an attempt can end
AttemptOutcomes == GenOutcomes \cup ResponseOutcomes

\* line 256 with the finish reason not tested
ProcessResult_IgnoresSafety(o) ==
    CASE o = "ok" -> "text"
      [] o = "NoParts" -> "no_text"
      [] o = "FunctionCall" -> "function_call"
      [] o = "SAFETY" -> "text"
      [] o = "IndexError" -> "empty_response"

\* lines 251-282: the result _process_gemini_response makes of a response:
\* generated text, no text (text is None), a function call (text is None),
\* the text blocked_response, the text empty_response
ProcessResult(o) ==
    CASE o = "ok" -> "text"
      [] o = "NoParts" -> "no_text"
      [] o = "FunctionCall" -> "function_call"
      [] o = "SAFETY" -> "blocked_response"
      [] o = "IndexError" -> "empty_response"

\* line 200 with a loop that goes on while there are credentials to get
LoopContinues_Unbounded(i) ==
    TRUE

\* line 200: there is a pass i + 1 of for i in range(len(api_key_manager.keys))
LoopContinues(i) ==
    i + 1 < len_key_indices

\* lines 247-248 with an exception raised in place of the return
ExhaustedResult_Raises ==
    "raises"

\* lines 247-248: what generate_response hands its caller when the loop ends
\* without a response: GeminiResponse(text=settings.texts.all_keys_failed,
\* finish_reason="ALL_KEYS_FAILED")
ExhaustedResult ==
    "all_keys_failed"

\* lines 73-227: generate_response up to the first remote call: with
\* file_names get_key(peek=True) for client_for_files, then the first pass of
\* the loop head (get_key(), break when it returns None and return the
\* all_keys_failed result of line 248)
GenStart(p, has_files) ==
    /\ pc[p] = "idle"
    /\ CallerCalls(p)
    /\ LET pk == IF has_files
                 THEN get_key(available_at, failed, current_index, TRUE, now)
                 ELSE [key |-> NoCall, index |-> current_index]
           r == get_key(available_at, failed, pk.index, FALSE, now)
       IN /\ Pool(available_at, failed, r.index, {})
          /\ IF r.key = None
             THEN Goes(p, "idle", None, 0) /\ ReturnsTo(p, ExhaustedResult)
             ELSE Goes(p, "gen_call", r.key, 0) /\ ReturnsTo(p, "none")
          /\ Event("none", 0, pk.key, r.key)
    /\ UNCHANGED now

\* lines 200-227 after a handled exception: the pool is (av, fl) after the
\* handler's n reports; the next pass of the loop, if there is one, calls
\* get_key(); without a credential or a next pass line 248 returns
GenRetry(p, o, av, fl, n, limited) ==
    IF LoopContinues(attempt[p])
    THEN LET r == get_key(av, fl, current_index, FALSE, now) IN
         /\ Pool(av, fl, r.index, limited)
         /\ IF r.key = None
            THEN Goes(p, "idle", None, 0) /\ ReturnsTo(p, ExhaustedResult)
            ELSE Goes(p, "gen_call", r.key, attempt[p] + 1) /\ ReturnsTo(p, "none")
         /\ Event(o, n, NoCall, r.key)
    ELSE /\ Pool(av, fl, current_index, limited)
         /\ Goes(p, "idle", None, 0)
         /\ ReturnsTo(p, ExhaustedResult)
         /\ Event(o, n, NoCall, NoCall)

\* lines 223-248: the remote call of one attempt ends with o
GenOutcome(p, o) ==
    /\ pc[p] = "gen_call"
    /\ LET k == api_key[p] IN
       CASE o \in ResponseOutcomes ->
              \* lines 230-232
              /\ Pool(release_key_available_at(available_at, k), failed,
                      current_index, {})
              /\ Goes(p, "idle", None, 0)
              /\ ReturnsTo(p, ProcessResult(o))
              /\ Event(o, 1, NoCall, NoCall)
         [] o = "ProcessingRaises" ->
              \* release_key at line 230, then _process_gemini_response raises
              \* and the handler at line 242 reports the same credential
              GenRetry(p, o,
                       report_failure_available_at(
                           release_key_available_at(available_at, k), k, TRUE, now),
                       report_failure_failed(failed, k, TRUE), 2, {k})
         [] o \in {"ResourceExhausted", "Exception", "ConfigRaises"} ->
              \* lines 234-236 and 242-244
              GenRetry(p, o,
                       report_failure_available_at(available_at, k, TRUE, now),
                       report_failure_failed(failed, k, TRUE), 1, {k})
         [] o = "PermissionDenied" ->
              \* lines 238-240
              GenRetry(p, o,
                       report_failure_available_at(available_at, k, FALSE, now),
                       report_failure_failed(failed, k, FALSE), 1, {})
         [] o = "CancelledError" ->
              \* not an Exception: no handler of the loop body catches it
              /\ Pool(available_at, failed, current_index, {})
              /\ Goes(p, "idle", None, 0)
              /\ ReturnsTo(p, "raises")
              /\ Event(o, 0, NoCall, NoCall)
    /\ UNCHANGED now

\* ------------------------------ upload_file_to_gemini, delete_file_from_gemini

\* how client.files.upload and client.files.delete end
FileOutcomes ==
    {"ok", "ResourceExhausted", "PermissionDenied", "Exception"}

\* lines 24-42: upload_file_to_gemini, whose upload ends with o
Upload(p, o) ==
    /\ pc[p] = "idle"
    /\ LET r == get_key(available_at, failed, current_index, FALSE, now)
           k == r.key
       IN IF k = None
          THEN /\ Pool(available_at, failed, r.index, {})
               /\ Event("no_key", 0, NoCall, None)
          ELSE /\ IF o = "ok"
                  THEN Pool(release_key_available_at(available_at, k), failed,
                            r.index, {})
                  ELSE Pool(report_failure_available_at(available_at, k, FALSE, now),
                            report_failure_failed(failed, k, FALSE), r.index, {})
               /\ Event(o, 1, NoCall, k)
    /\ Returns("none")
    /\ UNCHANGED <<now, taskVars>>

\* lines 44-62: delete_file_from_gemini, whose delete ends with o
Delete(p, o) ==
    /\ pc[p] = "idle"
    /\ LET r == get_key(available_at, failed, current_index, FALSE, now)
           k == r.key
       IN IF k = None
          THEN /\ Pool(available_at, failed, r.index, {})
               /\ Event("no_key", 0, NoCall, None)
          ELSE /\ Pool(release_key_available_at(available_at, k), failed,
                       r.index, {})
               /\ Event(o, 1, NoCall, k)
    /\ Returns("none")
    /\ UNCHANGED <<now, taskVars>>

\* ---------------------------------------------------- get_key_for_session

\* how the block run under the context manager ends
BlockOutcomes ==
    {"ok", "ResourceExhausted", "PermissionDenied", "Exception", "CancelledError"}

\* lines 86-91: up to the yield
SessionEnter(p) ==
    /\ pc[p] = "idle"
    /\ LET r == get_key(available_at, failed, current_index, FALSE, now) IN
         /\ Pool(available_at, failed, r.index, {})
         /\ IF r.key = None
            THEN /\ Goes(p, "idle", None, 0)
                 /\ Event("RuntimeError", 0, NoCall, None)
                 /\ Returns("raises")
            ELSE /\ Goes(p, "session_block", r.key, 0)
                 /\ Event("none", 0, NoCall, r.key)
                 /\ Returns("none")
    /\ UNCHANGED now

\* lines 91-105: the block ends with o
SessionExit(p, o) ==
    /\ pc[p] = "session_block"
    /\ LET k == api_key[p] IN
       CASE o = "ok" ->
              /\ Pool(release_key_available_at(available_at, k), failed,
                      current_index, {})
              /\ Event(o, 1, NoCall, NoCall)
         [] o = "PermissionDenied" ->
              /\ Pool(report_failure_available_at(available_at, k, FALSE, now),
                      report_failure_failed(failed, k, FALSE), current_index, {})
              /\ Event(o, 1, NoCall, NoCall)
         [] o \in {"ResourceExhausted", "Exception"} ->
              /\ Pool(report_failure_available_at(available_at, k, TRUE, now),
                      report_failure_failed(failed, k, TRUE), current_index, {k})
              /\ Event(o, 1, NoCall, NoCall)
         [] o = "CancelledError" ->
              \* a BaseException: none of the except clauses matches
              /\ Pool(available_at, failed, current_index, {})
              /\ Event(o, 0, NoCall, NoCall)
    /\ Goes(p, "idle", None, 0)
    /\ Returns(IF o = "ok" THEN "none" ELSE "raises")
    /\ UNCHANGED now

\* ------------------------------------------------------------------- Next

Next ==
    \/ Tick
    \/ \E p \in Tasks, has_files \in BOOLEAN : GenStart(p, has_files)
    \/ \E p \in Tasks, o \in GenOutcomes : GenOutcome(p, o)
    \/ \E p \in Tasks, o \in FileOutcomes : Upload(p, o)
    \/ \E p \in Tasks, o \in FileOutcomes : Delete(p, o)
    \/ \E p \in Tasks : SessionEnter(p)
    \/ \E p \in Tasks, o \in BlockOutcomes : SessionExit(p, o)

Spec == Init /\ [][Next]_vars

\* ------------------------------------------- one caller, healthy credentials

\* the instants the model observes
Times == {i * TickStep : i \in 0 .. (MaxTime \div TickStep)}

\* the values available_at can have at time t for a credential that is not on
\* cooldown: 0, or the end of a cooldown that is over
HealthyAt(t) == {0} \cup {CooldownEnd(u) : u \in {v \in Times : CooldownEnd(v) <= t}}

\* a pool whose credentials are all healthy, with the cursor anywhere
InitRR ==
    /\ now \in Times
    /\ available_at \in [Keys -> HealthyAt(now)]
    /\ failed = [k \in Keys |-> FALSE]
    /\ current_index \in Keys
    /\ pc = [p \in Tasks |-> "idle"]
    /\ api_key = [p \in Tasks |-> None]
    /\ attempt = [p \in Tasks |-> 0]
    /\ tried = [p \in Tasks |-> {}]
    /\ outcome = "none"
    /\ reports = 0
    /\ peek_key = NoCall
    /\ ret = NoCall
    /\ withheld_until = available_at
    /\ returned = <<>>
    /\ result = "none"
    /\ run_pc = "NoRun"
    /\ expert = 0
    /\ is_rag = FALSE
    /\ expert_responses = <<>>
    /\ run_result = "none"
    /\ AuxInit

\* one task runs the operations one after the other and each of them succeeds:
\* a sequence of get_key() + release_key() pairs with no failure report
NextRR ==
    \/ Tick
    \/ Upload(1, "ok")
    \/ Delete(1, "ok")
    \/ GenStart(1, FALSE)
    \/ GenOutcome(1, "ok")
    \/ SessionEnter(1)
    \/ SessionExit(1, "ok")

SpecRR == InitRR /\ [][NextRR]_vars

\* ------------------------------------------ _run_experts_and_synthesizer

\* a step of the run that calls nothing of the pool
RunOnly ==
    /\ Event("none", 0, NoCall, NoCall)
    /\ result' = "none"
    /\ UNCHANGED <<poolVars, taskVars, withheld_until, now, auxVars>>

\* lines 253-293: the run starts and awaits update_callback for the first
\* expert; rag: the expert's prompt makes is_rag_expert true and a function
\* call it returns is a duckduckgo_search with a query (lines 257, 265-269)
RunBegin(rag) ==
    /\ run_pc = "start"
    /\ run_pc' = "callback"
    /\ expert' = 1
    /\ is_rag' = rag
    /\ UNCHANGED <<expert_responses, run_result>>
    /\ RunOnly

\* line 291 with a loop that ends after its first pass
MoreExperts_None(e) ==
    FALSE

\* line 291: for i, prompt in enumerate(expert_prompts) has a pass after the
\* one of expert e
MoreExperts(e) ==
    e < NumExperts

\* lines 296-308 after asyncio.sleep(1): the next expert (its prompt makes
\* is_rag_expert rag), or after the last one the no_expert_opinions result
\* of line 302 or await update_callback before the synthesizer
AfterSleep(rag) ==
    /\ run_pc = "sleep"
    /\ IF MoreExperts(expert)
       THEN /\ run_pc' = "callback"
            /\ expert' = expert + 1
            /\ is_rag' = rag
            /\ UNCHANGED run_result
       ELSE /\ UNCHANGED <<expert, is_rag>>
            /\ IF Opinions(expert_responses) = <<>>
               THEN run_pc' = "returned" /\ run_result' = "no_expert_opinions"
               ELSE run_pc' = "synth_callback" /\ UNCHANGED run_result
    /\ UNCHANGED expert_responses
    /\ RunOnly

\* generate_response raises before its loop (lines 88-173: a history record
\* or a file part it cannot build), and so does the run
GenRaises ==
    /\ CallIssued
    /\ pc[RunTask] = "idle"
    /\ run_pc' = "raised"
    /\ UNCHANGED <<expert, is_rag, expert_responses, run_result>>
    /\ Event("Exception", 0, NoCall, NoCall)
    /\ result' = "raises"
    /\ UNCHANGED <<poolVars, taskVars, withheld_until, now, auxVars>>

\* the task is cancelled while the run awaits update_callback or sleep
RunCancelled ==
    /\ run_pc \in {"callback", "search_callback", "sleep", "synth_callback"}
    /\ run_pc' = "raised"
    /\ UNCHANGED <<expert, is_rag, expert_responses, run_result>>
    /\ RunOnly

\* handle_user_request in mode reasoning or agent has just called
\* _run_experts_and_synthesizer
InitRun ==
    /\ available_at = [k \in Keys |-> 0]
    /\ failed = [k \in Keys |-> FALSE]
    /\ current_index = 0
    /\ now = 0
    /\ pc = [p \in Tasks |-> "idle"]
    /\ api_key = [p \in Tasks |-> None]
    /\ attempt = [p \in Tasks |-> 0]
    /\ tried = [p \in Tasks |-> {}]
    /\ outcome = "none"
    /\ reports = 0
    /\ peek_key = NoCall
    /\ ret = NoCall
    /\ withheld_until = [k \in Keys |-> 0]
    /\ returned = <<>>
    /\ result = "none"
    /\ run_pc = "start"
    /\ expert = 0
    /\ is_rag = FALSE
    /\ expert_responses = <<>>
    /\ run_result = "none"
    /\ AuxInit

NextRun ==
    \/ Tick
    \/ \E rag \in BOOLEAN : RunBegin(rag)
    \/ \E has_files \in BOOLEAN : GenStart(RunTask, has_files)
    \/ \E o \in AttemptOutcomes : GenOutcome(RunTask, o)
    \/ GenRaises
    \/ \E rag \in BOOLEAN : AfterSleep(rag)
    \/ RunCancelled

SpecRun == InitRun /\ [][NextRun]_vars

\* the steps of a run that the event loop and the clock take by themselves:
\* every step but the return of the remote call, which is awaited at lines
\* 223-227 of gemini_service.py without a timeout
LocalSteps ==
    \/ Tick
    \/ \E rag \in BOOLEAN : RunBegin(rag)
    \/ \E has_files \in BOOLEAN : GenStart(RunTask, has_files)
    \/ GenRaises
    \/ \E rag \in BOOLEAN : AfterSleep(rag)

\* a run in which every local step that stays possible is taken, and the
\* remote call returns or not
SpecRunFair == InitRun /\ [][NextRun]_vars /\ WF_vars(LocalSteps)


\* ------------------------------ requests on a pool of NumKeys + 1 credentials

\* the credentials of a pool that has one credential more than Keys, so that
\* the loop of generate_response has a pass after its second one
RetryKeys == 0 .. NumKeys

\* a pool of NumKeys + 1 healthy credentials and no request yet
InitRetry ==
    /\ available_at = [k \in RetryKeys |-> 0]
    /\ failed = [k \in RetryKeys |-> FALSE]
    /\ current_index = 0
    /\ now = 0
    /\ pc = [p \in Tasks |-> "idle"]
    /\ api_key = [p \in Tasks |-> None]
    /\ attempt = [p \in Tasks |-> 0]
    /\ tried = [p \in Tasks |-> {}]
    /\ outcome = "none"
    /\ reports = 0
    /\ peek_key = NoCall
    /\ ret = NoCall
    /\ withheld_until = [k \in RetryKeys |-> 0]
    /\ returned = <<>>
    /\ result = "none"
    /\ run_pc = "NoRun"
    /\ expert = 0
    /\ is_rag = FALSE
    /\ expert_responses = <<>>
    /\ run_result = "none"
    /\ AuxInit

\* the requests of the tasks: generate_response calls and uploads
NextRetry ==
    \/ Tick
    \/ \E p \in Tasks : GenStart(p, FALSE)
    \/ \E p \in Tasks, o \in GenOutcomes : GenOutcome(p, o)
    \/ \E p \in Tasks, o \in FileOutcomes : Upload(p, o)

SpecRetry == InitRetry /\ [][NextRetry]_vars


\* ----------------------------------------------------- send_large_message
\* A text is a sequence of runs [c |-> class, n |-> length]: n characters of
\* class "x" (not whitespace), "sp" (whitespace other than a newline) or
\* "nl" (newline).

\* user_handlers.py line 29
TELEGRAM_MAX_MESSAGE_LENGTH == 4096

\* the lengths of the runs of the texts that are split
RunLengths == {1, 808, 4095, 4096, 4904, 9000}

\* the classes of characters
CharClasses == {"x", "sp", "nl"}

\* the texts that are split: MaxRuns runs at most
Texts ==
    UNION {[1 .. m -> [c : CharClasses, n : RunLengths]] : m \in 1 .. MaxRuns}

\* str.rfind when the substring does not occur
NotFound == 0 - 1

\* len(t)
RECURSIVE TextLen(_)
TextLen(t) ==
    IF t = <<>> THEN 0 ELSE t[1].n + TextLen(Tail(t))

\* t[:k]
RECURSIVE TextTake(_, _)
TextTake(t, k) ==
    IF k = 0 \/ t = <<>>
    THEN <<>>
    ELSE IF t[1].n <= k
         THEN <<t[1]>> \o TextTake(Tail(t), k - t[1].n)
         ELSE <<[c |-> t[1].c, n |-> k]>>

\* t[k:]
RECURSIVE TextDrop(_, _)
TextDrop(t, k) ==
    IF k = 0 \/ t = <<>>
    THEN t
    ELSE IF t[1].n <= k
         THEN TextDrop(Tail(t), k - t[1].n)
         ELSE <<[c |-> t[1].c, n |-> t[1].n - k]>> \o Tail(t)

\* the highest index of a newline in t, whose first character has index off
RECURSIVE LastNewline(_, _)
LastNewline(t, off) ==
    IF t = <<>>
    THEN NotFound
    ELSE LET later == LastNewline(Tail(t), off + t[1].n) IN
         IF later # NotFound THEN later
         ELSE IF t[1].c = "nl" THEN off + t[1].n - 1 ELSE NotFound

\* line 46: t.rfind('\n', 0, end)
rfind_newline(t, end) ==
    LastNewline(TextTake(t, end), 0)

\* line 50: t.lstrip()
RECURSIVE lstrip(_)
lstrip(t) ==
    IF t # <<>> /\ t[1].c \in {"sp", "nl"} THEN lstrip(Tail(t)) ELSE t

\* lines 46-48 with the part one character short of the limit
split_pos_Short(t) ==
    TELEGRAM_MAX_MESSAGE_LENGTH - 1

\* lines 46-48: split_pos
split_pos(t) ==
    IF rfind_newline(t, TELEGRAM_MAX_MESSAGE_LENGTH) = NotFound
    THEN TELEGRAM_MAX_MESSAGE_LENGTH
    ELSE rfind_newline(t, TELEGRAM_MAX_MESSAGE_LENGTH)

\* lines 44-54: one pass of the while loop
SplitStep ==
    /\ split_pc = "loop"
    /\ IF TextLen(text) > 0
       THEN IF TextLen(text) > TELEGRAM_MAX_MESSAGE_LENGTH
            THEN /\ parts' = Append(parts, TextTake(text, split_pos(text)))
                 /\ text' = lstrip(TextDrop(text, split_pos(text)))
                 /\ split_pc' = "loop"
            ELSE /\ parts' = Append(parts, text)
                 /\ text' = text
                 /\ split_pc' = "done"
       ELSE /\ split_pc' = "done"
            /\ UNCHANGED <<text, parts>>
    /\ UNCHANGED <<body, poolVars, taskVars, runVars, now, outcome, reports,
                   peek_key, ret, withheld_until, returned, result, contentVars,
                   expertVars, moreVars>>

\* send_large_message is at line 43 with a text that is not empty
InitSplit ==
    /\ available_at = [k \in Keys |-> 0]
    /\ failed = [k \in Keys |-> FALSE]
    /\ current_index = 0
    /\ now = 0
    /\ pc = [p \in Tasks |-> "idle"]
    /\ api_key = [p \in Tasks |-> None]
    /\ attempt = [p \in Tasks |-> 0]
    /\ tried = [p \in Tasks |-> {}]
    /\ outcome = "none"
    /\ reports = 0
    /\ peek_key = NoCall
    /\ ret = NoCall
    /\ withheld_until = [k \in Keys |-> 0]
    /\ returned = <<>>
    /\ result = "none"
    /\ run_pc = "NoRun"
    /\ expert = 0
    /\ is_rag = FALSE
    /\ expert_responses = <<>>
    /\ run_result = "none"
    /\ body \in Texts
    /\ text = body
    /\ parts = <<>>
    /\ split_pc = "loop"
    /\ history = <<>>
    /\ user_content = "none"
    /\ file_names = FALSE
    /\ final_contents = NotBuilt
    /\ ExpertIdle
    /\ MoreIdle

NextSplit ==
    SplitStep

SpecSplit == InitSplit /\ [][NextSplit]_vars


\* ------------------------------- generate_response: tools and final_contents
\* A history entry is [form, role, kind]: form "obj" is a History row (role
\* and content are attributes), form "dict" a dict with 'role' and 'content'
\* or 'parts'.  kind tells what the content is: "text" a plain string,
\* "none" no content, "media" the JSON of a media record with 'uri' and
\* 'mime_type', "media_no_uri" one without 'uri', "media_no_mime" one with
\* 'uri' and without 'mime_type', "function_call" and "function_response" a
\* list with one types.Part of that kind.

\* config.py line 315
internal_search_enabled_modes == {"fast", "reasoning", "agent"}

\* the modes of a request
Modes == {"fast", "reasoning", "agent"}

\* the roles of history entries
Roles == {"user", "assistant", "model", "tool"}

\* the history entries
Entries ==
    [form : {"obj"}, role : Roles,
     kind : {"text", "none", "media", "media_no_uri", "media_no_mime"}]
    \cup
    [form : {"dict"}, role : Roles,
     kind : {"text", "none", "function_call", "function_response"}]

\* the histories of at most n entries
Histories(n) ==
    UNION {[1 .. m -> Entries] : m \in 0 .. n}

\* lines 78-86 with the tools given to every caller in a search-enabled mode
ToolsFor_IgnoresRag(m, is_rag_expert) ==
    IF m \in internal_search_enabled_modes
    THEN <<"google_search", "url_context">>
    ELSE <<>>

\* lines 78-86: tools
ToolsFor(m, is_rag_expert) ==
    IF m \in internal_search_enabled_modes /\ ~is_rag_expert
    THEN <<"google_search", "url_context">>
    ELSE <<>>

\* lines 92-97: role of the entry msg
EntryRole(msg) ==
    IF msg.form = "obj" /\ msg.role = "assistant" THEN "model" ELSE msg.role

\* lines 102-144: processed_parts of the entry msg, by kind of part
ProcessedParts(msg) ==
    CASE msg.kind = "text" -> <<"text">>
      [] msg.kind = "media" -> <<"file_data">>
      [] msg.kind = "media_no_uri" -> <<>>
      [] msg.kind \in {"function_call", "function_response"} -> <<msg.kind>>
      [] OTHER -> <<>>

\* lines 90-147: the content blocks made of the entries i .. Len(h) of h;
\* src is the position of the entry a block is made of
RECURSIVE HistoryContents(_, _)
HistoryContents(h, i) ==
    IF i > Len(h)
    THEN <<>>
    ELSE IF h[i].kind = "none" \/ ProcessedParts(h[i]) = <<>>
         THEN HistoryContents(h, i + 1)
         ELSE <<[role |-> EntryRole(h[i]), parts |-> ProcessedParts(h[i]), src |-> i]>>
              \o HistoryContents(h, i + 1)

\* line 114: media_info['mime_type'] raises KeyError, which the handler of
\* line 120 does not catch
ContentsRaise(h) ==
    \E i \in 1 .. Len(h) : h[i].kind = "media_no_mime"

\* lines 150-170: user_parts; files: file_names is given and files.get
\* returns the files
UserParts(uc, files) ==
    (IF uc = "text" THEN <<"text">> ELSE <<>>)
    \o (IF files THEN <<"file_data">> ELSE <<>>)

\* lines 174-175 with the block of the current turn put first
CurrentTurn_First(contents, uc, files) ==
    IF UserParts(uc, files) # <<>>
    THEN <<[role |-> "user", parts |-> UserParts(uc, files), src |-> 0]>> \o contents
    ELSE contents

\* lines 174-175: the block of the current turn (src 0) is appended
CurrentTurn(contents, uc, files) ==
    IF UserParts(uc, files) # <<>>
    THEN Append(contents, [role |-> "user", parts |-> UserParts(uc, files), src |-> 0])
    ELSE contents

\* lines 88-175: final_contents, or the exception raised
BuildContents(h, uc, files) ==
    IF ContentsRaise(h)
    THEN [status |-> "raises", contents |-> <<>>]
    ELSE [status |-> "built",
          contents |-> CurrentTurn(HistoryContents(h, 1), uc, files)]

\* lines 88-175 of a generate_response call
Build ==
    /\ final_contents = NotBuilt
    /\ final_contents' = BuildContents(history, user_content, file_names)
    /\ UNCHANGED <<history, user_content, file_names>>
    /\ UNCHANGED <<splitVars, poolVars, taskVars, runVars, now, outcome, reports,
                   peek_key, ret, withheld_until, returned, result, expertVars,
                   moreVars>>

\* generate_response is called with a history, with or without user_content
\* and file_names
InitContents ==
    /\ available_at = [k \in Keys |-> 0]
    /\ failed = [k \in Keys |-> FALSE]
    /\ current_index = 0
    /\ now = 0
    /\ pc = [p \in Tasks |-> "idle"]
    /\ api_key = [p \in Tasks |-> None]
    /\ attempt = [p \in Tasks |-> 0]
    /\ tried = [p \in Tasks |-> {}]
    /\ outcome = "none"
    /\ reports = 0
    /\ peek_key = NoCall
    /\ ret = NoCall
    /\ withheld_until = [k \in Keys |-> 0]
    /\ returned = <<>>
    /\ result = "none"
    /\ run_pc = "NoRun"
    /\ expert = 0
    /\ is_rag = FALSE
    /\ expert_responses = <<>>
    /\ run_result = "none"
    /\ body = <<>>
    /\ text = <<>>
    /\ parts = <<>>
    /\ split_pc = "idle"
    /\ history \in Histories(MaxHistory)
    /\ user_content \in {"text", "none"}
    /\ file_names \in BOOLEAN
    /\ final_contents = NotBuilt
    /\ ExpertIdle
    /\ MoreIdle

NextContents ==
    Build

SpecContents == InitContents /\ [][NextContents]_vars


\* --------------------------------------- run_expert and the synthesizer call
\* One expert of a run, with generate_response seen from its caller: the
\* call it is made with, and the result it returns.

\* what generate_response hands its caller: the results of ProcessResult,
\* ExhaustedResult, or an exception
Results ==
    {ProcessResult(o) : o \in ResponseOutcomes} \cup {ExhaustedResult, "raises"}

\* response.function_call by kind: a duckduckgo_search call with a query that
\* is not empty ("search_q"), one whose args have no query or an empty one
\* ("search_empty"), one whose args are None ("search_noargs"), a call of
\* another name ("other")
ToolCalls == {"search_q", "search_empty", "search_noargs", "other"}

\* how requests.get, raise_for_status and response.json end in
\* get_instant_answer: a JSON object, a JSON value that is not an object, or
\* an exception
SearchOutcomes ==
    {"ok", "NotAnObject", "ConnectionError", "Timeout", "HTTPError", "JSONDecodeError"}

\* the histories run_expert is called with
ExpertHistories ==
    {h \in Histories(MaxExpertHistory) :
        \A i \in 1 .. Len(h) :
            h[i].form = "obj" /\ h[i].kind \in {"text", "media_no_mime"}}

\* duckduckgo.py lines 4-15 with HTTPError not caught
get_instant_answer_HTTPErrorEscapes(so) ==
    CASE so = "ok" -> "object"
      [] so = "NotAnObject" -> "not_object"
      [] so = "HTTPError" -> "raises"
      [] OTHER -> "empty_object"

\* duckduckgo.py lines 4-15: what get_instant_answer returns: the JSON value
\* of the body, or {} when a RequestException or a JSONDecodeError is caught
get_instant_answer(so) ==
    CASE so = "ok" -> "object"
      [] so = "NotAnObject" -> "not_object"
      [] OTHER -> "empty_object"

\* duckduckgo.py lines 17-56: format_duckduckgo_html: the HTML of an object
\* with data, the no-data text for {}; ddg_result.get raises AttributeError
\* for a value that is not an object
format_duckduckgo_html(search_result) ==
    CASE search_result = "object" -> "html"
      [] search_result = "empty_object" -> "no_data"
      [] OTHER -> "raises"

\* lines 276-280: new_history
NewHistory(h, uc) ==
    h \o (IF uc = "text"
          THEN <<[form |-> "dict", role |-> "user", kind |-> "text"]>>
          ELSE <<>>)
      \o <<[form |-> "dict", role |-> "model", kind |-> "function_call"],
           [form |-> "dict", role |-> "tool", kind |-> "function_response"]>>

\* line 309
is_synthesizer_rag(m) ==
    m \in {"agent", "reasoning"}

\* a generate_response call from site of the run: its arguments, tools and
\* final_contents
Request(site, h, uc, rag) ==
    [site |-> site, history |-> h, user_content |-> uc,
     tools |-> ToolsFor(mode, rag),
     final_contents |-> BuildContents(h, uc, file_names)]

\* the run makes the generate_response call req, which raises before its
\* loop or awaits, at position pos, what it returns
Calls(req, pos) ==
    /\ requests' = Append(requests, req)
    /\ exp_pc' = IF req.final_contents.status = "raises" THEN "raised" ELSE pos

\* the steps of one expert leave the rest of the state alone
ExpertOnly ==
    UNCHANGED <<splitVars, contentVars, poolVars, taskVars, runVars, now,
                outcome, reports, peek_key, ret, withheld_until, returned,
                result, mode, moreVars>>

\* lines 256-262: run_expert calls generate_response
ExpertStart ==
    /\ exp_pc = "start"
    /\ Calls(Request("round1", history, user_content, is_rag), "round1")
    /\ UNCHANGED <<searches, tool_call, opinion, ddg_query_used>>
    /\ ExpertOnly

\* lines 259-287: the first generate_response call hands x to run_expert,
\* with the function call tc when x is a function call
Round1Returns(x, tc) ==
    /\ exp_pc = "round1"
    /\ tool_call' = IF x = "function_call" THEN tc ELSE "none"
    /\ CASE x = "raises" ->
              exp_pc' = "raised" /\ UNCHANGED <<opinion, ddg_query_used>>
         [] x = "function_call" /\ is_rag /\ tc = "search_noargs" ->
              \* line 268: tool_call.args.get raises AttributeError
              exp_pc' = "raised" /\ UNCHANGED <<opinion, ddg_query_used>>
         [] x = "function_call" /\ is_rag /\ tc = "search_q" ->
              \* lines 270-271: await update_callback
              /\ exp_pc' = "search_status"
              /\ ddg_query_used' = "q"
              /\ UNCHANGED opinion
         [] OTHER ->
              \* line 287
              /\ exp_pc' = "returned"
              /\ opinion' = OpinionText(x)
              /\ UNCHANGED ddg_query_used
    /\ UNCHANGED <<requests, searches>>
    /\ ExpertOnly

\* lines 272-285: the search, which ends with so, and the second
\* generate_response call
SearchAndCall(so) ==
    /\ exp_pc = "search_status"
    /\ LET search_result == get_instant_answer(so)
           search_result_html == IF search_result = "raises"
                                 THEN "raises"
                                 ELSE format_duckduckgo_html(search_result)
       IN  /\ searches' = Append(searches, [query |-> ddg_query_used, outcome |-> so,
                                            search_result_html |-> search_result_html])
           /\ IF search_result_html = "raises"
              THEN exp_pc' = "raised" /\ UNCHANGED requests
              ELSE Calls(Request("round2", NewHistory(history, user_content),
                                 "none", is_rag), "round2")
    /\ UNCHANGED <<tool_call, opinion, ddg_query_used>>
    /\ ExpertOnly

\* lines 282-286: the second generate_response call hands x to run_expert
Round2Returns(x) ==
    /\ exp_pc = "round2"
    /\ IF x = "raises"
       THEN exp_pc' = "raised" /\ UNCHANGED opinion
       ELSE exp_pc' = "returned" /\ opinion' = OpinionText(x)
    /\ UNCHANGED <<requests, searches, tool_call, ddg_query_used>>
    /\ ExpertOnly

\* lines 298-314 in a run whose only expert has returned an opinion: the
\* synthesizer's generate_response call
SynthesizerCall ==
    /\ exp_pc = "returned"
    /\ opinion # "none"
    /\ Calls(Request("synth", <<>>, "text", is_synthesizer_rag(mode)), "synth")
    /\ UNCHANGED <<searches, tool_call, opinion, ddg_query_used>>
    /\ ExpertOnly

\* _run_experts_and_synthesizer is about to call run_expert for an expert
InitExpert ==
    /\ available_at = [k \in Keys |-> 0]
    /\ failed = [k \in Keys |-> FALSE]
    /\ current_index = 0
    /\ now = 0
    /\ pc = [p \in Tasks |-> "idle"]
    /\ api_key = [p \in Tasks |-> None]
    /\ attempt = [p \in Tasks |-> 0]
    /\ tried = [p \in Tasks |-> {}]
    /\ outcome = "none"
    /\ reports = 0
    /\ peek_key = NoCall
    /\ ret = NoCall
    /\ withheld_until = [k \in Keys |-> 0]
    /\ returned = <<>>
    /\ result = "none"
    /\ run_pc = "NoRun"
    /\ expert = 0
    /\ is_rag \in BOOLEAN
    /\ expert_responses = <<>>
    /\ run_result = "none"
    /\ body = <<>>
    /\ text = <<>>
    /\ parts = <<>>
    /\ split_pc = "idle"
    /\ history \in ExpertHistories
    /\ user_content \in {"text", "none"}
    /\ file_names \in BOOLEAN
    /\ final_contents = NotBuilt
    /\ mode \in {"reasoning", "agent"}
    /\ exp_pc = "start"
    /\ requests = <<>>
    /\ searches = <<>>
    /\ tool_call = "none"
    /\ opinion = "none"
    /\ ddg_query_used = "none"
    /\ MoreIdle

NextExpert ==
    \/ ExpertStart
    \/ \E x \in Results, tc \in ToolCalls : Round1Returns(x, tc)
    \/ \E so \in SearchOutcomes : SearchAndCall(so)
    \/ \E x \in Results : Round2Returns(x)
    \/ SynthesizerCall

SpecExpert == InitExpert /\ [][NextExpert]_vars


\* ------------------------------------------------------ handle_media_group
\* One conversation sends media groups one after the other.  The files the
\* remote API holds are numbered in the order of their upload: file n is the
\* n-th file uploaded, and owner[n] the credential it was uploaded with.

\* the files uploaded in a run of the model
MaxFiles == 3

\* the photos of a media group
MaxPhotos == 2

\* the steps of handle_media_group leave the rest of the state alone; they
\* are not steps of the tasks of Spec
MediaOnly ==
    UNCHANGED <<now, taskVars, outcome, reports, ret, returned, result, runVars,
                splitVars, contentVars, expertVars, lockVars, groupVars>>

\* the elements of the sequence s
Range(s) == {s[i] : i \in 1 .. Len(s)}

\* lines 151-170: up to the loop that deletes the old files
MediaBegin ==
    /\ media_pc = "idle"
    /\ media_pc' = "delete_old"
    /\ old_file_names' = state_file_names
    /\ new_file_names' = <<>>
    /\ peek_key' = NoCall
    /\ UNCHANGED <<poolVars, withheld_until, state_file_names, downloaded_files,
                   deleted_names, owner>>
    /\ MediaOnly

\* lines 172-176: delete_file_from_gemini (lines 44-62) for the next old
\* file, whose client.files.delete ends with o
MediaDeleteOld(o) ==
    /\ media_pc = "delete_old"
    /\ old_file_names # <<>>
    /\ LET r == get_key(available_at, failed, current_index, FALSE, now) IN
       IF r.key = None
       THEN \* lines 48-50: no request is made
            /\ Pool(available_at, failed, r.index, {})
            /\ UNCHANGED deleted_names
       ELSE /\ Pool(release_key_available_at(available_at, r.key), failed, r.index, {})
            /\ deleted_names' = deleted_names \cup {Head(old_file_names)}
    /\ old_file_names' = Tail(old_file_names)
    /\ peek_key' = NoCall
    /\ UNCHANGED <<media_pc, state_file_names, downloaded_files, new_file_names, owner>>
    /\ MediaOnly

\* lines 178-194: the photos of the group are downloaded, m of them, or
\* get_file or download_file raises and the handler of line 221 ends the call
MediaDownload(m, raises) ==
    /\ media_pc = "delete_old"
    /\ old_file_names = <<>>
    /\ Len(owner) + m <= MaxFiles
    /\ IF raises
       THEN media_pc' = "idle" /\ UNCHANGED downloaded_files
       ELSE media_pc' = "upload" /\ downloaded_files' = m
    /\ peek_key' = NoCall
    /\ UNCHANGED <<poolVars, withheld_until, state_file_names, old_file_names,
                   new_file_names, deleted_names, owner>>
    /\ MediaOnly

\* lines 195-200: upload_file_to_gemini (lines 24-42) for the next
\* downloaded file, whose client.files.upload ends with o
MediaUpload(o) ==
    /\ media_pc = "upload"
    /\ downloaded_files > 0
    /\ LET r == get_key(available_at, failed, current_index, FALSE, now) IN
       IF r.key = None
       THEN /\ Pool(available_at, failed, r.index, {})
            /\ UNCHANGED <<new_file_names, owner>>
       ELSE IF o = "ok"
            THEN /\ Pool(release_key_available_at(available_at, r.key), failed,
                         r.index, {})
                 /\ owner' = Append(owner, r.key)
                 /\ new_file_names' = Append(new_file_names, Len(owner) + 1)
            ELSE /\ Pool(report_failure_available_at(available_at, r.key, FALSE, now),
                         report_failure_failed(failed, r.key, FALSE), r.index, {})
                 /\ UNCHANGED <<new_file_names, owner>>
    /\ downloaded_files' = downloaded_files - 1
    /\ peek_key' = NoCall
    /\ UNCHANGED <<media_pc, state_file_names, old_file_names, deleted_names>>
    /\ MediaOnly

\* lines 202-207: without an uploaded file the call ends; with one,
\* state.update_data(file_names=file_names)
MediaStore ==
    /\ media_pc = "upload"
    /\ downloaded_files = 0
    /\ IF new_file_names = <<>>
       THEN media_pc' = "idle" /\ UNCHANGED state_file_names
       ELSE media_pc' = "request" /\ state_file_names' = new_file_names
    /\ peek_key' = NoCall
    /\ UNCHANGED <<poolVars, withheld_until, old_file_names, downloaded_files,
                   new_file_names, deleted_names, owner>>
    /\ MediaOnly

\* lines 213-219: handle_user_request reads file_names from the state (line
\* 334) and generate_response resolves them with the credential of
\* get_key(peek=True) (gemini_service.py lines 155-157)
MediaRequest ==
    /\ media_pc = "request"
    /\ media_pc' = "idle"
    /\ peek_key' = get_key(available_at, failed, current_index, TRUE, now).key
    /\ UNCHANGED <<poolVars, withheld_until, state_file_names, old_file_names,
                   downloaded_files, new_file_names, deleted_names, owner>>
    /\ MediaOnly

\* upload_file_to_gemini (lines 24-42) for a file of another conversation,
\* whose client.files.upload ends with o
OtherUpload(o) ==
    /\ LET r == get_key(available_at, failed, current_index, FALSE, now) IN
       IF r.key = None
       THEN Pool(available_at, failed, r.index, {})
       ELSE IF o = "ok"
            THEN Pool(release_key_available_at(available_at, r.key), failed,
                      r.index, {})
            ELSE Pool(report_failure_available_at(available_at, r.key, FALSE, now),
                      report_failure_failed(failed, r.key, FALSE), r.index, {})
    /\ peek_key' = NoCall
    /\ UNCHANGED mediaVars
    /\ MediaOnly

\* a pool of healthy credentials and a conversation without files
InitMedia == Init

\* the media groups of the conversation, and the uploads of other
\* conversations
NextMedia ==
    \/ MediaBegin
    \/ \E o \in {"ok", "Exception"} : MediaDeleteOld(o)
    \/ \E m \in 1 .. MaxPhotos, raises \in BOOLEAN : MediaDownload(m, raises)
    \/ \E o \in FileOutcomes : MediaUpload(o)
    \/ MediaStore
    \/ MediaRequest
    \/ \E o \in FileOutcomes : OtherUpload(o)

SpecMedia == InitMedia /\ [][NextMedia]_vars


\* ------------------------------------------------------- media_group_cache
\* The messages of one media group.  A message is its message_id; the entry
\* of the group in media_group_cache is cache, with present = FALSE when the
\* dictionary has no entry.  The timer of the entry is "none" (None),
\* "pending" (a handle call_later has not run yet) or "fired" (a handle that
\* ran: still truthy, its cancel() does nothing).  orphan_timers counts the
\* pending handles of entries that were deleted, proc_created the tasks of
\* process_media_group that did not start yet, proc_handling those awaiting
\* handler_coro, and delivered lists the arguments of the handler calls.

\* the messages of the media group
MaxMessages == 3

Messages == 1 .. MaxMessages

\* the steps of the cache leave the rest of the state alone
GroupOnly ==
    UNCHANGED <<now, taskVars, poolVars, withheld_until, outcome, reports, peek_key,
                ret, returned, result, runVars, splitVars, contentVars, expertVars,
                lockVars, mediaVars>>

\* line 45: sorted(messages, key=lambda m: m.message_id)
RECURSIVE sorted(_)
sorted(s) ==
    IF s = <<>> THEN <<>>
    ELSE LET least == CHOOSE x \in Range(s) : \A y \in Range(s) : x <= y
         IN  <<least>> \o sorted(SelectSeq(s, LAMBDA x : x # least))

\* lines 17-36: add_message_to_group for a message of the group
add_message_to_group(m) ==
    /\ m \notin arrived
    /\ arrived' = arrived \cup {m}
    /\ cache' = [present |-> TRUE,
                 messages |-> Append(cache.messages, m),
                 timer |-> "pending"]
    /\ UNCHANGED <<orphan_timers, proc_created, proc_handling, delivered>>
    /\ GroupOnly

\* lines 32-35: the delay of the timer of the entry is over and the loop runs
\* its callback, which creates the task of process_media_group.  A task that
\* was created starts in the next iteration of the loop, long before the
\* delay of another timer is over.
TimerFires ==
    /\ proc_created = 0
    /\ cache.present
    /\ cache.timer = "pending"
    /\ cache' = [cache EXCEPT !.timer = "fired"]
    /\ proc_created' = proc_created + 1
    /\ UNCHANGED <<arrived, orphan_timers, proc_handling, delivered>>
    /\ GroupOnly

\* lines 32-35: the same for a timer whose entry was deleted
OrphanTimerFires ==
    /\ proc_created = 0
    /\ orphan_timers > 0
    /\ orphan_timers' = orphan_timers - 1
    /\ proc_created' = proc_created + 1
    /\ UNCHANGED <<arrived, cache, proc_handling, delivered>>
    /\ GroupOnly

\* lines 42-46: process_media_group up to the await of the handler
process_media_group ==
    /\ proc_created > 0
    /\ proc_created' = proc_created - 1
    /\ IF cache.present
       THEN /\ delivered' = Append(delivered, sorted(cache.messages))
            /\ proc_handling' = proc_handling + 1
       ELSE UNCHANGED <<delivered, proc_handling>>
    /\ UNCHANGED <<arrived, cache, orphan_timers>>
    /\ GroupOnly

\* line 47: the handler returned; del media_group_cache[media_group_id],
\* a KeyError when another task deleted the entry already
HandlerReturns ==
    /\ proc_handling > 0
    /\ proc_handling' = proc_handling - 1
    /\ IF cache.present
       THEN /\ cache' = NoEntry
            /\ orphan_timers' = orphan_timers + (IF cache.timer = "pending" THEN 1 ELSE 0)
       ELSE UNCHANGED <<cache, orphan_timers>>
    /\ UNCHANGED <<arrived, proc_created, delivered>>
    /\ GroupOnly

\* line 9: the empty cache
InitGroup == Init

NextGroup ==
    \/ \E m \in Messages : add_message_to_group(m)
    \/ TimerFires
    \/ OrphanTimerFires
    \/ process_media_group
    \/ HandlerReturns

SpecGroup == InitGroup /\ [][NextGroup]_vars


\* ------------------------------------- the methods of the pool under _lock
\* Threads call get_key, report_failure and release_key at the same time; a
\* step of a thread is one statement group of the method, so that the steps
\* of two threads interleave wherever the lock lets them.

\* lines 41, 65 and 75 without the lock: the with statement lets every
\* thread in
LockIsFree_Always(l) ==
    TRUE

\* lines 41, 65, 75: `with self._lock` lets a thread in when no thread
\* holds the lock
LockIsFree(l) ==
    l = NoThread

\* the calls a thread makes: get_key(), get_key(peek=True),
\* report_failure(key, is_rate_limit), release_key(key)
ThreadCalls ==
    {[op |-> "get_key", peek |-> b, key |-> None, is_rate_limit |-> FALSE] :
        b \in BOOLEAN}
    \cup {[op |-> "report_failure", peek |-> FALSE, key |-> k, is_rate_limit |-> b] :
            k \in Keys, b \in BOOLEAN}
    \cup {[op |-> "release_key", peek |-> FALSE, key |-> k, is_rate_limit |-> FALSE] :
            k \in Keys}

\* a thread about to make the call c
ThreadAt(c) ==
    [call |-> c, pc |-> "call", temp_index |-> 0, n |-> 0, ret |-> NoCall]

\* the steps of the threads leave the rest of the state alone
LockOnly ==
    UNCHANGED <<now, taskVars, outcome, reports, peek_key, ret, withheld_until,
                returned, result, runVars, splitVars, contentVars, expertVars,
                pool0, mediaVars, groupVars>>

\* thread t leaves the with block of its method with the result r
Leaves(t, r) ==
    /\ threads' = [threads EXCEPT ![t].pc = "done", ![t].ret = r]
    /\ lock' = NoThread

\* lines 41, 65, 75: thread t enters the with block of its method
LockAcquire(t) ==
    /\ threads[t].pc = "call"
    /\ LockIsFree(lock)
    /\ lock' = t
    /\ threads' = [threads EXCEPT ![t].pc = "locked"]
    /\ UNCHANGED poolVars
    /\ LockOnly

\* lines 42-45 of get_key: start_index, temp_index and the range of the loop
GetKeyRead(t) ==
    /\ threads[t].pc = "locked"
    /\ threads[t].call.op = "get_key"
    /\ threads' = [threads EXCEPT ![t].pc = "scan",
                                  ![t].temp_index = StartIndex(current_index),
                                  ![t].n = len_key_indices]
    /\ UNCHANGED <<poolVars, lock>>
    /\ LockOnly

\* lines 46-62 of get_key: one pass of the loop, and lines 61-62 after the
\* last pass
GetKeyScan(t) ==
    /\ threads[t].pc = "scan"
    /\ LET k == threads[t].temp_index IN
       IF KeyUsable(available_at, failed, k, now)
       THEN /\ current_index' = AdvanceIndex(current_index, k, threads[t].call.peek)
            /\ Leaves(t, k)
       ELSE /\ UNCHANGED current_index
            /\ IF threads[t].n = 1
               THEN Leaves(t, None)
               ELSE /\ threads' = [threads EXCEPT
                                      ![t].temp_index = (k + 1) % len_key_indices,
                                      ![t].n = threads[t].n - 1]
                    /\ UNCHANGED lock
    /\ UNCHANGED <<available_at, failed>>
    /\ LockOnly

\* lines 66-72: the write of report_failure
ReportFailureWrite(t) ==
    /\ threads[t].pc = "locked"
    /\ threads[t].call.op = "report_failure"
    /\ available_at' = report_failure_available_at(available_at, threads[t].call.key,
                                                   threads[t].call.is_rate_limit, now)
    /\ failed' = report_failure_failed(failed, threads[t].call.key,
                                       threads[t].call.is_rate_limit)
    /\ Leaves(t, NoCall)
    /\ UNCHANGED current_index
    /\ LockOnly

\* lines 76-78: the write of release_key
ReleaseKeyWrite(t) ==
    /\ threads[t].pc = "locked"
    /\ threads[t].call.op = "release_key"
    /\ available_at' = release_key_available_at(available_at, threads[t].call.key)
    /\ Leaves(t, NoCall)
    /\ UNCHANGED <<failed, current_index>>
    /\ LockOnly

\* a pool with credentials on cooldown and the cursor anywhere; each thread
\* is about to call a method
InitLock ==
    /\ now = 0
    /\ available_at \in [Keys -> {0, CooldownEnd(now)}]
    /\ failed = [k \in Keys |-> FALSE]
    /\ current_index \in Keys
    /\ pc = [p \in Tasks |-> "idle"]
    /\ api_key = [p \in Tasks |-> None]
    /\ attempt = [p \in Tasks |-> 0]
    /\ tried = [p \in Tasks |-> {}]
    /\ outcome = "none"
    /\ reports = 0
    /\ peek_key = NoCall
    /\ ret = NoCall
    /\ withheld_until = [k \in Keys |-> 0]
    /\ returned = <<>>
    /\ result = "none"
    /\ run_pc = "NoRun"
    /\ expert = 0
    /\ is_rag = FALSE
    /\ expert_responses = <<>>
    /\ run_result = "none"
    /\ body = <<>>
    /\ text = <<>>
    /\ parts = <<>>
    /\ split_pc = "idle"
    /\ history = <<>>
    /\ user_content = "none"
    /\ file_names = FALSE
    /\ final_contents = NotBuilt
    /\ ExpertIdle
    /\ lock = NoThread
    /\ threads \in [Tasks -> {ThreadAt(c) : c \in ThreadCalls}]
    /\ pool0 = [available_at |-> available_at, failed |-> failed,
                current_index |-> current_index]
    /\ MediaIdle
    /\ GroupIdle

NextLock ==
    \/ \E t \in Tasks : LockAcquire(t)
    \/ \E t \in Tasks : GetKeyRead(t)
    \/ \E t \in Tasks : GetKeyScan(t)
    \/ \E t \in Tasks : ReportFailureWrite(t)
    \/ \E t \in Tasks : ReleaseKeyWrite(t)

SpecLock == InitLock /\ [][NextLock]_vars


\* ------------------------------------------------------------- properties

\* the step is GenOutcome, the only one that moves a task on from the remote
\* call of generate_response: its reports come before the get_key() of the
\* next pass of the loop
RetryStep ==
    \E p \in Tasks :
        pc[p] = "gen_call" /\ (pc'[p] # "gen_call" \/ attempt'[p] # attempt[p])

\* the smallest element of a non-empty set of integers
Min(S) == CHOOSE x \in S : \A y \in S : x <= y

\* C1: once a credential is marked failed it stays failed through every later
\* step (release_key and rate-limit reports included), and no later get_key,
\* with or without peek, returns it; a retry of generate_response does not
\* return the credential its own handler has just marked failed.
C1_FailedNeverReturned ==
    [][\A k \in Keys :
          /\ failed[k] => (failed'[k] /\ ret' # k /\ peek_key' # k)
          /\ (failed'[k] /\ RetryStep) => ret' # k]_vars

\* a get_key() call made while another credential was failed returned a credential
C1_Witness ==
    \E k \in Keys : failed[k] /\ ret \in Keys /\ ret # k /\ ~failed[ret]

\* every credential is in the state a rate-limit report left it in
AllRateLimited ==
    \A k \in Keys :
        ~failed[k] /\ available_at[k] > 0 /\ available_at[k] = withheld_until[k]

\* C2: when each of the NumKeys credentials has been handed out and reported
\* rate-limited, get_key returns None at every time before the earliest of
\* the cooldowns ends, and a credential from the time that cooldown has ended.
C2_ExhaustedUntilEarliestCooldown ==
    AllRateLimited =>
        LET r == get_key(available_at, failed, current_index, FALSE, now).key
            earliest == Min({available_at[k] : k \in Keys})
        IN  /\ IF now < earliest THEN r = None ELSE r \in Keys
            /\ ret # NoCall => (ret = None <=> now < earliest)

\* a get_key() call returned None while every credential was on cooldown
C2_Witness ==
    /\ AllRateLimited
    /\ ret = None
    /\ now < Min({available_at[k] : k \in Keys})

\* every credential was on cooldown and get_key() returned one at the instant
\* the earliest cooldown ended
C2_WitnessExpired ==
    /\ AllRateLimited
    /\ ret \in Keys

\* C4: from any cursor position in a pool of NumKeys healthy credentials, the
\* first NumKeys get_key() calls of a sequence of get_key() + release_key()
\* pairs return pairwise distinct credentials, hence each credential once
\* before any credential is returned a second time.
C4_RoundRobin ==
    /\ \A i \in 1 .. Len(returned) : returned[i] \in Keys
    /\ \A i, j \in 1 .. Len(returned) :
          (i < j /\ j <= NumKeys) => returned[i] # returned[j]
    /\ Len(returned) >= NumKeys => {returned[i] : i \in 1 .. NumKeys} = Keys

\* a full round was made and the next call returned a credential a second time
C4_Witness ==
    /\ Len(returned) > NumKeys
    /\ returned[NumKeys + 1] = returned[1]
    /\ current_index # 0

\* C3: a credential reported rate-limited at time t is returned by no get_key,
\* with or without peek, at any time in [t, t + cooldown_seconds), whatever
\* the other tasks do in between; a retry of generate_response is held to the
\* window its own handler has just opened.
C3_WithheldDuringCooldown ==
    [][\A k \in Keys :
          /\ now < withheld_until[k] => (ret' # k /\ peek_key' # k)
          /\ (RetryStep /\ now < withheld_until'[k]) => ret' # k]_vars

\* the pool fields a step's get_key() call read: a retry of generate_response
\* calls it after its reports, every other step before them
AvailableAtRead == IF RetryStep THEN available_at' ELSE available_at
FailedRead == IF RetryStep THEN failed' ELSE failed

\* C5: get_key returns the first credential, in cyclic order from the cursor,
\* that is not failed and whose available_at is not after now, and leaves the
\* cursor just after it; it returns None exactly when there is no such
\* credential, and then the cursor is unchanged and so is every credential
\* (a retry's own reports, made before the call, apart).
C5_FirstEligibleFromCursor ==
    [][ret' # NoCall =>
          LET offsets == {d \in 0 .. (NumKeys - 1) :
                             LET k == (current_index + d) % NumKeys
                             IN  ~FailedRead[k] /\ AvailableAtRead[k] <= now}
          IN  IF offsets = {}
              THEN /\ ret' = None
                   /\ current_index' = current_index
                   /\ ~RetryStep => UNCHANGED <<available_at, failed>>
              ELSE /\ ret' = (current_index + Min(offsets)) % NumKeys
                   /\ current_index' = (ret' + 1) % NumKeys]_vars

\* get_key() returned a credential while another one was failed or on cooldown
C5_Witness ==
    /\ ret \in Keys
    /\ outcome = "none"
    /\ \E k \in Keys : k # ret /\ (failed[k] \/ available_at[k] > now)

\* get_key() found nothing usable in a pool holding a failed credential and a
\* credential on cooldown
C5_WitnessNone ==
    /\ ret = None
    /\ \E k \in Keys : failed[k]
    /\ \E k \in Keys : ~failed[k]

\* C6: get_key(peek=True) changes neither the cursor nor any credential and
\* returns what the get_key() that follows it at the same time returns; after
\* the two calls the cursor is where the second call alone puts it.
C6_PeekIsPure ==
    [][peek_key' # NoCall =>
          /\ peek_key' = ret'
          /\ UNCHANGED <<available_at, failed>>
          /\ current_index' = IF ret' = None THEN current_index
                              ELSE (ret' + 1) % NumKeys]_vars

\* a peek returned a credential further on than the cursor
C6_Witness ==
    /\ peek_key \in Keys
    /\ ret = peek_key
    /\ \E k \in Keys : failed[k] \/ available_at[k] > now

\* C7: available_at of a credential goes down only by a reset to 0 made in a
\* step that reports a successful use.
C7_LoweredOnlyBySuccess ==
    [][\A k \in Keys :
          available_at'[k] < available_at[k] =>
              (available_at'[k] = 0 /\ outcome' = "ok")]_vars

\* C8: a credential becomes failed only in a step that handled a
\* permission-class rejection.
C8_FailedOnlyOnPermissionDenied ==
    [][\A k \in Keys :
          (~failed[k] /\ failed'[k]) => outcome' = "PermissionDenied"]_vars

\* the instants, from now on, at which a waiting caller calls get_key() again
\* once time has reached u
RetryTimes(u) ==
    LET first == IF now >= u THEN now ELSE u
    IN  {first + i * TickStep : i \in 0 .. 2}

\* C9: after get_key() returned None, with the pool left as it is,
\* get_key() returns a credential at every time from the soonest available_at
\* of the pool on.
C9_RecoverableByWaiting ==
    ret = None =>
        \A t \in RetryTimes(Min({available_at[k] : k \in Keys})) :
            get_key(available_at, failed, current_index, FALSE, t).key \in Keys

\* what does hold: after get_key() returned None in a pool that has a
\* credential which is not failed, with the pool left as it is, get_key()
\* returns a credential at every time from the soonest available_at among the
\* credentials that are not failed on.
RecoverableUnlessAllFailed ==
    (ret = None /\ \E k \in Keys : ~failed[k]) =>
        \A t \in RetryTimes(Min({available_at[k] : k \in {j \in Keys : ~failed[j]}})) :
            get_key(available_at, failed, current_index, FALSE, t).key \in Keys

\* C10: every way out of the block run under get_key_for_session makes
\* exactly one disposition report.
C10_OneReportPerExit ==
    [][\A p \in Tasks :
          (pc[p] = "session_block" /\ pc'[p] # "session_block") => reports' = 1]_vars

\* C11: when the block run under get_key_for_session ends, the credential k
\* the session holds is classified by how the block ended: normal completion
\* sets available_at[k] to 0; PermissionDenied marks k failed and is raised
\* again; ResourceExhausted and any other Exception set available_at[k] to
\* now + cooldown_seconds, leave failed[k] as it was and are raised again; no
\* other credential's available_at or failed changes.
C11_SessionClassification ==
    [][\A p \in Tasks :
          (pc[p] = "session_block" /\ pc'[p] # "session_block") =>
              LET k == api_key[p] IN
              /\ outcome' = "ok" =>
                    /\ available_at'[k] = 0
                    /\ failed'[k] = failed[k]
                    /\ result' = "none"
              /\ outcome' = "PermissionDenied" =>
                    /\ failed'[k]
                    /\ available_at'[k] = available_at[k]
                    /\ result' = "raises"
              /\ outcome' \in {"ResourceExhausted", "Exception"} =>
                    /\ available_at'[k] = now + cooldown_seconds
                    /\ failed'[k] = failed[k]
                    /\ result' = "raises"
              /\ \A j \in Keys \ {k} :
                    available_at'[j] = available_at[j] /\ failed'[j] = failed[j]]_vars

\* a session block ended with an exception that is neither PermissionDenied
\* nor ResourceExhausted: its credential is on cooldown, not failed, and the
\* exception was raised again
C11_Witness ==
    /\ outcome = "Exception"
    /\ result = "raises"
    /\ reports = 1
    /\ \E k \in Keys : ~failed[k] /\ available_at[k] = now + cooldown_seconds


\* C12: a generate_response call is in pass i < NumKeys of its loop whenever
\* it awaits a remote call, so it makes at most NumKeys remote calls; and
\* whatever way a remote call ends, with other requests running at the same
\* time, the call either is over (it hands the caller a result, or the
\* CancelledError of a cancelled task) or goes to the remote call of pass
\* i + 1: the number of passes left goes down at each of its steps.
C12_BoundedAttempts ==
    [][\A p \in Tasks :
          /\ pc[p] = "gen_call" => attempt[p] < NumKeys
          /\ (pc[p] = "gen_call" /\ <<pc[p], attempt[p]>> # <<pc'[p], attempt'[p]>>) =>
                \/ /\ pc'[p] = "idle"
                   /\ result' \in {"text", "all_keys_failed", "raises"}
                \/ /\ pc'[p] = "gen_call"
                   /\ attempt'[p] = attempt[p] + 1
                   /\ attempt'[p] < NumKeys
                   /\ result' = "none"]_vars

\* a call whose NumKeys remote calls were all rejected is over, with the
\* all_keys_failed result
C12_Witness ==
    /\ outcome \in {"ResourceExhausted", "PermissionDenied", "Exception", "ProcessingRaises"}
    /\ result = "all_keys_failed"
    /\ ret = NoCall
    /\ \A p \in Tasks : pc[p] = "idle"


\* the only get_key() calls made so far are those of task p's
\* generate_response call, which began on a pool of healthy credentials with
\* the cursor at credential 0 (A); ks are the credentials they returned
OnlyCallOf(p, ks) ==
    /\ returned = ks
    /\ pc[p] = "gen_call"
    /\ api_key[p] = ks[Len(ks)]
    /\ attempt[p] = Len(ks) - 1

\* C13: in a pool whose credentials are healthy with the cursor at A = 0 and
\* B = 1 next, when the first remote call of generate_response (with A) is
\* rejected with ResourceExhausted at time now, A gets
\* available_at = now + cooldown_seconds and stays not failed, and the second
\* pass calls with B; when that call succeeds, generate_response returns its
\* text, B has available_at = 0, and A still has the available_at of the report
\* and is not failed.
C13_RetryOnNextCredential ==
    [][\A p \in Tasks :
          /\ ( /\ OnlyCallOf(p, <<0>>)
               /\ \A k \in Keys : available_at[k] = 0 /\ ~failed[k]
               /\ attempt'[p] # attempt[p] \/ pc'[p] # pc[p]
               /\ outcome' = "ResourceExhausted" ) =>
                  /\ available_at'[0] = now + cooldown_seconds
                  /\ ~failed'[0]
                  /\ pc'[p] = "gen_call" /\ api_key'[p] = 1 /\ attempt'[p] = 1
                  /\ returned' = <<0, 1>>
                  /\ result' = "none"
          /\ ( /\ OnlyCallOf(p, <<0, 1>>)
               /\ ~failed[0]
               /\ attempt'[p] # attempt[p] \/ pc'[p] # pc[p]
               /\ outcome' = "ok" ) =>
                  /\ result' = "text"
                  /\ pc'[p] = "idle"
                  /\ available_at'[1] = 0 /\ ~failed'[1]
                  /\ ~failed'[0]
                  /\ available_at'[0] = available_at[0]
                  /\ available_at'[0] = withheld_until[0]
                  /\ \E t \in 0 .. now : available_at'[0] = t + cooldown_seconds]_vars

\* generate_response has returned the text of its second remote call, made
\* with B after the call with A was rejected
C13_Witness ==
    /\ returned = <<0, 1>>
    /\ outcome = "ok"
    /\ result = "text"
    /\ \A p \in Tasks : pc[p] = "idle"
    /\ ~failed[0] /\ available_at[0] >= cooldown_seconds
    /\ available_at[0] = withheld_until[0]
    /\ ~failed[1] /\ available_at[1] = 0


\* C14: when the remote call of a generate_response pass returns a response
\* stopped for SAFETY, generate_response returns the blocked_response text in
\* that step: it calls get_key() no more, so there is no further remote call,
\* and the credential k it used gets the one report of a success
\* (available_at[k] = 0), is not marked failed, and no other credential
\* changes.
C14_SafetyBlockReturnsAtOnce ==
    [][(pc[RunTask] = "gen_call" /\ outcome' = "SAFETY") =>
          LET k == api_key[RunTask] IN
          /\ result' = "blocked_response"
          /\ pc'[RunTask] = "idle"
          /\ ret' = NoCall /\ peek_key' = NoCall
          /\ reports' = 1
          /\ available_at'[k] = 0
          /\ failed' = failed
          /\ \A j \in Keys \ {k} : available_at'[j] = available_at[j]]_vars

\* generate_response returned the blocked_response text while get_key() had
\* another credential to hand out
C14_Witness ==
    /\ outcome = "SAFETY"
    /\ result = "blocked_response"
    /\ pc[RunTask] = "idle"
    /\ get_key(available_at, failed, current_index, FALSE, now).key \in Keys


\* the run's generate_response call ends in this step without a response:
\* a get_key() of its loop returned None, or the remote call of its last pass
\* was rejected
EndsExhausted ==
    \/ ret' = None
    \/ /\ pc[RunTask] = "gen_call"
       /\ attempt[RunTask] = NumKeys - 1
       /\ outcome' \in {"ResourceExhausted", "PermissionDenied", "Exception",
                        "ProcessingRaises"}

\* C15: when a get_key() of generate_response returns None, or the remote
\* call of its last pass is rejected, generate_response raises nothing and
\* returns the all_keys_failed result (the text all_keys_failed with finish
\* reason ALL_KEYS_FAILED); when the call is the synthesizer's, the run
\* returns in that step and that result is what it returns.
C15_ExhaustionIsReturned ==
    [][EndsExhausted =>
          /\ result' = "all_keys_failed"
          /\ pc'[RunTask] = "idle"
          /\ CallSite = "synth" =>
                (run_pc' = "returned" /\ run_result' = "all_keys_failed")]_vars

\* the run returned the all_keys_failed result of the synthesizer's call, made
\* after an expert had given an opinion
C15_Witness ==
    /\ run_pc = "returned"
    /\ run_result = "all_keys_failed"
    /\ result = "all_keys_failed"
    /\ Opinions(expert_responses) # <<>>


\* C16: an expert whose generate_response call ended for want of a credential
\* abstains: the all_keys_failed text is not among the texts collected from
\* the experts, and the run goes to the synthesizer only when an expert has
\* given a text other than all_keys_failed.
C16_ExhaustionIsAbstention ==
    /\ \A i \in 1 .. Len(expert_responses) :
          expert_responses[i] # "all_keys_failed"
    /\ run_pc \in {"synth_callback", "synth"} =>
          \E i \in 1 .. Len(expert_responses) :
              expert_responses[i] \notin {"none", "all_keys_failed"}

\* C17: an expert whose remote call returned a response without a candidate
\* abstains: the empty_response text, which _process_gemini_response makes of
\* such a response, is not among the texts collected from the experts.
C17_EmptyResponseIsAbstention ==
    \A i \in 1 .. Len(expert_responses) :
        expert_responses[i] # "empty_response"

\* the results of generate_response that are no opinion: no text, and the
\* texts generate_response puts in place of a response it did not get
NoOpinion ==
    {"none", "all_keys_failed", "empty_response"}

\* every expert of the run has finished without an opinion
AllAbstained ==
    /\ Len(expert_responses) = NumExperts
    /\ \A i \in 1 .. NumExperts : expert_responses[i] \in NoOpinion

\* C18: when the NumExperts experts have finished, the run calls the
\* synthesizer if one of them at least gave an opinion, and its result is
\* what the run returns; if none did, the run returns the no_expert_opinions
\* result without calling the synthesizer.
C18_AbstentionTolerance ==
    /\ run_pc \in {"synth_callback", "synth"} => ~AllAbstained
    /\ run_pc = "returned" =>
          (AllAbstained <=> run_result = "no_expert_opinions")

\* C19: an exception raised by the generate_response call of an expert does
\* not end the run: a run ended by an exception of generate_response had
\* collected the result of every expert.
C19_ExpertFailureDoesNotAbort ==
    (run_pc = "raised" /\ outcome = "Exception" /\ result = "raises") =>
        Len(expert_responses) = NumExperts

\* the phase of the run
Phase ==
    CASE run_pc = "start" -> "START"
      [] run_pc \in {"callback", "expert_round1", "search_callback",
                     "expert_round2", "sleep"} -> "EXPERTS_RUNNING"
      [] run_pc \in {"synth_callback", "synth"} -> "SYNTHESIZING"
      [] run_pc = "returned" /\ run_result = "no_expert_opinions" -> "NO_OPINIONS"
      [] run_pc = "returned" /\ run_result # "no_expert_opinions" -> "DONE"
      [] OTHER -> "RAISED"

PartLengths == [i \in 1 .. Len(parts) |-> TextLen(parts[i])]

\* the body has 9000 characters, none of them a newline
Body9000NoNewline ==
    /\ TextLen(body) = 9000
    /\ \A i \in 1 .. Len(body) : body[i].c # "nl"

\* C29 as stated: a text of 9000 characters with no newline is split into
\* two chunks, of 4096 and 4904 characters.
C29_TwoChunks ==
    (split_pc = "done" /\ Body9000NoNewline) => PartLengths = <<4096, 4904>>

\* C29, as the code has it: a text of 9000 characters none of which is
\* whitespace is split into three chunks, of 4096, 4096 and 808 characters,
\* in order, which put end to end are the text.
C29_ThreeChunks ==
    (split_pc = "done" /\ TextLen(body) = 9000
        /\ \A i \in 1 .. Len(body) : body[i].c = "x") =>
            /\ PartLengths = <<4096, 4096, 808>>
            /\ TextLen(parts[1] \o parts[2] \o parts[3]) = TextLen(body)
            /\ \A j \in 1 .. 3 : \A i \in 1 .. Len(parts[j]) : parts[j][i].c = "x"

\* a text of 9000 characters that are not whitespace has been split
C29_Witness ==
    /\ split_pc = "done"
    /\ body = <<[c |-> "x", n |-> 9000]>>
    /\ Len(parts) = 3


\* the positions of the responses that carry a text
OpinionIndices(responses) ==
    {i \in 1 .. Len(responses) : responses[i] # "none"}

\* the j-th smallest element of the set S of integers
NthOf(S, j) ==
    CHOOSE i \in S : Cardinality({k \in S : k < i}) = j - 1

SourcesOf(contents) ==
    LET prior == SelectSeq(contents, LAMBDA b : b.src # 0)
    IN  [j \in 1 .. Len(prior) |-> prior[j].src]

\* the positions of the entries of h that have content and whose role is
\* user, assistant or model
UserAndModelEntries(h) ==
    {i \in 1 .. Len(h) :
        /\ h[i].role \in {"user", "assistant", "model"}
        /\ h[i].kind # "none"
        /\ ProcessedParts(h[i]) # <<>>}

\* C28: the content list generate_response builds holds, in the order of the
\* history, one block for each history entry with content whose role is
\* user, assistant or model, and no block for an entry with another role;
\* the block of the current turn, when there is one, is single and last.
C28_ContentsFromHistory ==
    final_contents.status = "built" =>
        LET S == UserAndModelEntries(history)
            contents == final_contents.contents
            src == SourcesOf(contents)
        IN  /\ Len(src) = Cardinality(S)
            /\ \A j \in 1 .. Len(src) : src[j] = NthOf(S, j)
            /\ \A j \in 1 .. Len(contents) :
                  contents[j].src = 0 => j = Len(contents)
            /\ UserParts(user_content, file_names) # <<>> =>
                  contents[Len(contents)].src = 0



\* the positions in requests of the generate_response calls made from site
RequestsFrom(site) ==
    {i \in 1 .. Len(requests) : requests[i].site = site}

\* C22: an expert whose first result carries a search call with the query q
\* and that has returned made exactly one search call, with q, and exactly
\* one second generate_response call, whose history is the original history,
\* then the user turn if there is user content, then a model turn with the
\* function call, then a tool turn with the function response.
C22_ToolProtocol ==
    (exp_pc = "returned" /\ tool_call = "search_q") =>
        /\ Len(searches) = 1
        /\ searches[1].query = "q"
        /\ Cardinality(RequestsFrom("round2")) = 1
        /\ \A i \in RequestsFrom("round2") :
              LET h == requests[i].history
                  n == Len(h)
                  u == IF user_content = "text" THEN 1 ELSE 0
              IN  /\ n = Len(history) + u + 2
                  /\ SubSeq(h, 1, Len(history)) = history
                  /\ u = 1 => h[n - 2].role = "user" /\ h[n - 2].kind = "text"
                  /\ h[n - 1].role = "model" /\ h[n - 1].kind = "function_call"
                  /\ h[n].role = "tool" /\ h[n].kind = "function_response"

\* C23: the contents of every second generate_response call of an expert end
\* with the tool turn.
C23_Round2EndsWithToolTurn ==
    \A i \in RequestsFrom("round2") :
        LET c == requests[i].final_contents
        IN  c.status = "built" =>
                /\ c.contents # <<>>
                /\ c.contents[Len(c.contents)].role = "tool"

\* C24: an expert that was sent tool declarations, whose first result carries
\* a search call with a query, and that has returned, has made its second
\* generate_response call.
C24_ToolCallRunsProtocol ==
    (exp_pc = "returned" /\ tool_call = "search_q" /\ requests[1].tools # <<>>) =>
        RequestsFrom("round2") # {}

\* C25: once the first result of an expert carries a search call whose query
\* is empty or missing, the expert has returned without an opinion and
\* without a query, and has made no search call and no second
\* generate_response call.
C25_EmptyQueryIsAbstention ==
    tool_call \in {"search_empty", "search_noargs"} =>
        /\ exp_pc = "returned"
        /\ opinion = "none"
        /\ ddg_query_used = "none"
        /\ searches = <<>>
        /\ RequestsFrom("round2") = {}

\* C26: every generate_response call for an expert whose prompt makes
\* is_rag_expert true, first or second, and every synthesizer call in the
\* modes reasoning and agent, has an empty list of tools.
C26_NoToolsForRagAndSynthesizer ==
    \A i \in 1 .. Len(requests) :
        \/ requests[i].site \in {"round1", "round2"} /\ is_rag
        \/ requests[i].site = "synth" /\ mode \in {"reasoning", "agent"}
        => requests[i].tools = <<>>

C26_Witness ==
    /\ is_rag
    /\ Len(requests) = 3
    /\ requests[1].site = "round1"
    /\ requests[2].site = "round2"
    /\ requests[3].site = "synth"
    /\ \A i \in 1 .. 3 : requests[i].tools = <<>>

\* the ways the search call fails: no connection, a timeout of the
\* connection, an HTTP error status, a body that is not JSON
SearchFailures ==
    {"ConnectionError", "Timeout", "HTTPError", "JSONDecodeError"}

\* C27: a step in which the search call fails does not raise: it makes the
\* second generate_response call of the expert, whose history ends with the
\* tool turn, and the search result it carries is the no-data text.
C27_SearchFailureIsNoResult ==
    [][(/\ exp_pc = "search_status"
        /\ Len(searches') = Len(searches) + 1
        /\ searches'[Len(searches')].outcome \in SearchFailures)
       => /\ searches'[Len(searches')].search_result_html = "no_data"
          /\ exp_pc' = "round2"
          /\ Len(requests') = Len(requests) + 1
          /\ LET r == requests'[Len(requests')]
             IN  /\ r.site = "round2"
                 /\ r.history[Len(r.history)].role = "tool"]_vars

\* after a failed search the expert has returned an opinion and the
\* synthesizer has been called
C27_Witness ==
    /\ Len(searches) = 1
    /\ searches[1].outcome = "HTTPError"
    /\ searches[1].search_result_html = "no_data"
    /\ RequestsFrom("round2") # {}
    /\ opinion = "text"
    /\ RequestsFrom("synth") # {}


\* C30: a remote call of a run does not last for ever: a run that awaits the
\* remote call of an attempt leaves that call, so that the run goes on to
\* its end.
C30_RemoteCallEnds ==
    (pc[RunTask] = "gen_call") ~> (pc[RunTask] # "gen_call")


\* C31: two tasks that are each in a call with a credential (awaiting the
\* remote call of generate_response, or in the block of a session), neither
\* having reported on it yet, do not hold the same credential.
C31_NoCredentialShared ==
    \A p \in Tasks, q \in Tasks :
        (p # q /\ pc[p] # "idle" /\ pc[q] # "idle") => api_key[p] # api_key[q]


\* C35: a step in which an attempt of generate_response ends (the remote
\* call returned or raised an Exception, and the call goes to its next pass
\* or returns) makes exactly one disposition report on the credential of the
\* attempt.
C35_OneReportPerAttempt ==
    [][\A p \in Tasks :
          (/\ pc[p] = "gen_call"
           /\ pc'[p] # "gen_call" \/ attempt'[p] # attempt[p]
           /\ outcome' # "CancelledError")
          => reports' = 1]_vars


\* C36: a step in which an attempt of generate_response ends by an error
\* raised before the remote call is issued (building the client or the
\* request configuration) leaves available_at and failed of every
\* credential as they were.
C36_LocalErrorChangesNoCredential ==
    [][outcome' = "ConfigRaises" => UNCHANGED <<available_at, failed>>]_vars


\* the number of characters of t that are not whitespace
RECURSIVE Visible(_)
Visible(t) ==
    IF t = <<>>
    THEN 0
    ELSE (IF t[1].c = "x" THEN t[1].n ELSE 0) + Visible(Tail(t))

\* the characters of the parts made so far, end to end
RECURSIVE Joined(_, _)
Joined(ps, i) ==
    IF i > Len(ps) THEN <<>> ELSE ps[i] \o Joined(ps, i + 1)

\* C38: every chunk send_large_message makes has at least one character and
\* at most TELEGRAM_MAX_MESSAGE_LENGTH, and when the loop has ended the
\* chunks hold, in order, every character of the text that is not
\* whitespace.
C38_ChunksAreBounded ==
    /\ \A i \in 1 .. Len(parts) :
          /\ TextLen(parts[i]) > 0
          /\ TextLen(parts[i]) <= TELEGRAM_MAX_MESSAGE_LENGTH
    /\ split_pc = "done" => Visible(Joined(parts, 1)) = Visible(body)


\* C37: when a generate_response call goes to a further pass of its loop, the
\* credential get_key() hands it is none of those the earlier passes of the
\* call made a remote call with.
C37_NoCredentialTriedTwice ==
    [][\A p \in Tasks :
          (pc[p] = "gen_call" /\ pc'[p] = "gen_call" /\ attempt'[p] = attempt[p] + 1)
          => api_key'[p] \notin tried[p]]_vars


\* the call c made on the pool p in one piece: the pool and the result after
\* it
Atomically(c, p) ==
    CASE c.op = "get_key" ->
           LET r == get_key(p.available_at, p.failed, p.current_index, c.peek, now)
           IN  [pool |-> [p EXCEPT !.current_index = r.index], ret |-> r.key]
      [] c.op = "report_failure" ->
           [pool |-> [p EXCEPT
                        !.available_at = report_failure_available_at(
                                             p.available_at, c.key, c.is_rate_limit, now),
                        !.failed = report_failure_failed(p.failed, c.key, c.is_rate_limit)],
            ret |-> NoCall]
      [] c.op = "release_key" ->
           [pool |-> [p EXCEPT !.available_at =
                                   release_key_available_at(p.available_at, c.key)],
            ret |-> NoCall]

\* the orders the threads' calls can be put in
Orders ==
    {o \in [1 .. NumTasks -> Tasks] : \A i, j \in 1 .. NumTasks : o[i] = o[j] => i = j}

\* the pool after the first i calls of the order o, made one after the other
\* from pool0
RECURSIVE PoolAfter(_, _)
PoolAfter(o, i) ==
    IF i = 0
    THEN pool0
    ELSE Atomically(threads[o[i]].call, PoolAfter(o, i - 1)).pool

\* every thread has left its method
AllDone ==
    /\ threads # <<>>
    /\ \A t \in Tasks : threads[t].pc = "done"

\* credential k can be handed out from the pool p
Eligible(p, k) ==
    KeyUsable(p.available_at, p.failed, k, now)

\* C32: when the threads have left their methods, the pool and the results
\* are those of the calls made one after the other in some order: no write
\* of one call is lost to another.  In particular two get_key() calls made at
\* the same time on a pool with two credentials that can be handed out (the
\* other threads only peek) return two distinct credentials, and the cursor
\* is just after the one of them that is further from where the cursor was.
C32_MethodsAreAtomic ==
    AllDone =>
        /\ \E o \in Orders :
              /\ PoolAfter(o, NumTasks) =
                    [available_at |-> available_at, failed |-> failed,
                     current_index |-> current_index]
              /\ \A i \in 1 .. NumTasks :
                    threads[o[i]].ret =
                        Atomically(threads[o[i]].call, PoolAfter(o, i - 1)).ret
        /\ \A p \in Tasks, q \in Tasks :
              (/\ p # q
               /\ threads[p].call.op = "get_key" /\ ~threads[p].call.peek
               /\ threads[q].call.op = "get_key" /\ ~threads[q].call.peek
               /\ \A t \in Tasks \ {p, q} :
                     threads[t].call.op = "get_key" /\ threads[t].call.peek
               /\ Cardinality({k \in Keys : Eligible(pool0, k)}) >= 2)
              => LET dist(k) == (k - pool0.current_index) % NumKeys
                     last == IF dist(threads[p].ret) > dist(threads[q].ret)
                             THEN threads[p].ret ELSE threads[q].ret
                 IN  /\ threads[p].ret \in Keys
                     /\ threads[q].ret \in Keys
                     /\ threads[p].ret # threads[q].ret
                     /\ current_index = (last + 1) % NumKeys

\* two threads have called get_key() at the same time on a pool with two
\* credentials that could be handed out, and have got two credentials
C32_Witness ==
    /\ AllDone
    /\ \E p \in Tasks, q \in Tasks :
          /\ p # q
          /\ threads[p].call.op = "get_key" /\ ~threads[p].call.peek
          /\ threads[q].call.op = "get_key" /\ ~threads[q].call.peek
          /\ Cardinality({k \in Keys : Eligible(pool0, k)}) >= 2
          /\ threads[p].ret \in Keys
          /\ threads[q].ret \in Keys
          /\ threads[p].ret # threads[q].ret


\* C33: when handle_media_group is over or has stored the new file names, no
\* file name of the conversation state is one client.files.delete was called
\* with, and every file uploaded for the conversation that the state no
\* longer names is one client.files.delete was called with.
C33_SupersededFilesAreDeleted ==
    media_pc \in {"idle", "request"} =>
        /\ \A n \in Range(state_file_names) : n \notin deleted_names
        /\ \A n \in 1 .. Len(owner) :
              n \notin Range(state_file_names) => n \in deleted_names

\* C34: the credential get_key(peek=True) returns when generate_response
\* resolves the file names of the conversation is the credential each of
\* those files was uploaded with.
C34_PeekIsUploadCredential ==
    (media_pc = "idle" /\ peek_key # NoCall) =>
        \A n \in Range(state_file_names) : owner[n] = peek_key


\* the number of handler calls the message m was passed to
Deliveries(m) == Cardinality({i \in 1 .. Len(delivered) : m \in Range(delivered[i])})

\* no timer is pending and no task of process_media_group is left
GroupQuiet ==
    /\ cache.timer # "pending"
    /\ orphan_timers = 0
    /\ proc_created = 0
    /\ proc_handling = 0

\* C39: no message of the group is passed to the handler twice, the messages
\* of a handler call are in ascending message_id order, and once no timer and
\* no task is left every message added was passed to the handler once.
C39_EachMessageHandledOnce ==
    /\ \A m \in arrived : Deliveries(m) <= 1
    /\ \A i \in 1 .. Len(delivered) :
          \A j, k \in 1 .. Len(delivered[i]) :
              j < k => delivered[i][j] < delivered[i][k]
    /\ GroupQuiet => \A m \in arrived : Deliveries(m) = 1

====
